---- MODULE Spec2Model ----
(***************************************************************************)
(* Model of app.py: the text-to-document converter to_docx_bytes, the      *)
(* .docx branch of read_any_file, the LLM wrapper polish_with_openai and   *)
(* the output tab that ties them together.                                 *)
(*                                                                         *)
(* A string is a sequence of one-character strings.  The bullet character  *)
(* U+2022 is written "*" because module text is ASCII.                     *)
(***************************************************************************)
EXTENDS Integers, Sequences, FiniteSets, TLC

VARIABLES
    text,       \* to_docx_bytes: the argument, after `text or ""`
    lines,      \* to_docx_bytes: (text or "").splitlines()
    i,          \* to_docx_bytes: position of the for loop in lines
    doc,        \* to_docx_bytes: the paragraphs of the Document, in order
    pc,         \* to_docx_bytes: control point
    out,        \* to_docx_bytes: the returned bytes (the saved paragraphs)
    txt,        \* read_any_file: the text recovered from the .docx
    mode,       \* which variant of the converter runs
    secret,     \* st.secrets: what the lookup of OPENAI_API_KEY does
    appPc,      \* the script run: control point
    polished,   \* output tab: first component of polish_with_openai's result
    err,        \* output tab: second component of polish_with_openai's result
    requestSent,\* whether client.chat.completions.create was called
    shown,      \* output tab: what the run displayed
    prev        \* a (line, block) pair emitted by an earlier to_docx_bytes call

vars == <<text, lines, i, doc, pc, out, txt, mode, secret, appPc, polished,
          err, requestSent, shown, prev>>

convVars == <<text, lines, i, doc, pc, out, txt>>
appVars  == <<secret, appPc, polished, err, requestSent, shown, prev>>

-----------------------------------------------------------------------------
(* Bounds *)

MaxLen == 4      \* longest text handed to to_docx_bytes directly
MaxAppLen == 2   \* longest text the LLM returns in the application runs
MaxMdLen == 5    \* longest text in markdown-heading mode

-----------------------------------------------------------------------------
(* Characters *)

SP     == " "
TAB    == "\t"
NL     == "\n"
CR     == "\r"
COLON  == ":"
BULLET == "*"
DASH   == "-"
HASH   == "#"
LETTER == "a"

Chars == {SP, TAB, NL, CR, COLON, BULLET, DASH, LETTER}

\* str.strip() with no argument removes these
Whitespace == {SP, TAB, NL, CR}

\* str.splitlines() ends a line at each of these ("\r\n" counts once)
LineBreaks == {NL, CR}

None == <<"None">>

StringsUpTo(alphabet, n) == UNION {[1..k -> alphabet] : k \in 0..n}

Texts == StringsUpTo(Chars, MaxLen)

-----------------------------------------------------------------------------
(* String operations of the Python runtime *)

StartsWith(s, p) ==
    /\ Len(p) <= Len(s)
    /\ SubSeq(s, 1, Len(p)) = p

EndsWith(s, p) ==
    /\ Len(p) <= Len(s)
    /\ SubSeq(s, Len(s) - Len(p) + 1, Len(s)) = p

RECURSIVE LStripChars(_, _)
LStripChars(s, chars) ==
    IF s # <<>> /\ Head(s) \in chars THEN LStripChars(Tail(s), chars) ELSE s

RECURSIVE RStripChars(_, _)
RStripChars(s, chars) ==
    IF s # <<>> /\ s[Len(s)] \in chars
    THEN RStripChars(SubSeq(s, 1, Len(s) - 1), chars)
    ELSE s

Strip(s) == LStripChars(RStripChars(s, Whitespace), Whitespace)

RECURSIVE LineEnd(_, _)
LineEnd(s, j) ==
    IF j > Len(s) \/ s[j] \in LineBreaks THEN j ELSE LineEnd(s, j + 1)

RECURSIVE SplitLinesFrom(_, _)
SplitLinesFrom(s, start) ==
    IF start > Len(s) THEN <<>>
    ELSE LET j == LineEnd(s, start)
             next == IF j > Len(s) THEN j
                     ELSE IF s[j] = CR /\ j + 1 <= Len(s) /\ s[j + 1] = NL
                          THEN j + 2
                          ELSE j + 1
         IN  <<SubSeq(s, start, j - 1)>> \o SplitLinesFrom(s, next)

\* str.split("\n"): every segment between newlines, empty ones included
RECURSIVE SplitKeepFrom(_, _, _)
SplitKeepFrom(s, start, j) ==
    IF j > Len(s) THEN <<SubSeq(s, start, Len(s))>>
    ELSE IF s[j] = NL
         THEN <<SubSeq(s, start, j - 1)>> \o SplitKeepFrom(s, j + 1, j + 1)
         ELSE SplitKeepFrom(s, start, j + 1)

SplitNewline(s) == SplitKeepFrom(s, 1, 1)

SplitLinesKeepTrailing(s) == SplitKeepFrom(s, 1, 1)

SplitLines(s) == SplitLinesFrom(s, 1)

RECURSIVE JoinNewline(_)
JoinNewline(parts) ==
    IF parts = <<>> THEN <<>>
    ELSE IF Len(parts) = 1 THEN parts[1]
    ELSE parts[1] \o <<NL>> \o JoinNewline(Tail(parts))

-----------------------------------------------------------------------------
(* The document backend: how a paragraph's text is stored and read back *)

\* add_paragraph / add_heading: a tab becomes a tab element, a line break a
\* break element, every other character is kept as text
RunElement(c) ==
    IF c = TAB THEN "w:tab"
    ELSE IF c \in LineBreaks THEN "w:br"
    ELSE c

RunElements(t) == [k \in 1..Len(t) |-> RunElement(t[k])]

\* Paragraph.text: a tab element reads as a tab, a break element as "\n"
ElementText(e) ==
    IF e = "w:tab" THEN TAB
    ELSE IF e = "w:br" THEN NL
    ELSE e

ParagraphText(p) == [k \in 1..Len(p.runs) |-> ElementText(p.runs[k])]

Serialize(d) ==
    [k \in 1..Len(d) |-> [style |-> d[k].style, runs |-> RunElements(d[k].text)]]

RECURSIVE SelectAll(_)
SelectAll(paras) ==
    IF paras = <<>> THEN <<>>
    ELSE <<ParagraphText(Head(paras))>> \o SelectAll(Tail(paras))

RECURSIVE SelectNonBlank(_)
SelectNonBlank(paras) ==
    IF paras = <<>> THEN <<>>
    ELSE IF Strip(ParagraphText(Head(paras))) # <<>>
         THEN <<ParagraphText(Head(paras))>> \o SelectNonBlank(Tail(paras))
         ELSE SelectNonBlank(Tail(paras))

-----------------------------------------------------------------------------
(* to_docx_bytes *)

BulletChars == {BULLET, DASH, SP}

IsHeadingLineFirstOnly(line) ==
    /\ EndsWith(Strip(line), <<COLON>>)
    /\ ~StartsWith(line, <<SP>>)
    /\ doc = <<>>

IsHeadingLineAnyIndent(line) == EndsWith(Strip(line), <<COLON>>)

IsHeadingLine(line) ==
    /\ EndsWith(Strip(line), <<COLON>>)
    /\ ~StartsWith(line, <<SP>>)

IsBulletLineUntrimmed(line) ==
    \/ StartsWith(line, <<BULLET>>)
    \/ StartsWith(line, <<DASH, SP>>)

IsBulletLine(line) ==
    \/ StartsWith(Strip(line), <<BULLET>>)
    \/ StartsWith(Strip(line), <<DASH, SP>>)

HeadingText(line) == Strip(line)

BulletTextPrefixOnly(line) ==
    IF StartsWith(Strip(line), <<DASH, SP>>)
    THEN SubSeq(Strip(line), 3, Len(Strip(line)))
    ELSE SubSeq(Strip(line), 2, Len(Strip(line)))

BulletText(line) == LStripChars(Strip(line), BulletChars)

\* `text or ""`
OrEmpty(t) == IF t = None THEN <<>> ELSE t

Block(kind, level, t, style) ==
    [kind |-> kind, level |-> level, text |-> t, style |-> style]

InitConv ==
    /\ lines = SplitLines(text)
    /\ i = 1
    /\ doc = <<>>
    /\ pc = "loop"
    /\ out = None
    /\ txt = None

NoBlock == [line |-> <<>>, kind |-> "none", level |-> 0, text |-> <<>>]

\* the converter called on its own, outside a script run
InitApp ==
    /\ secret = "key"
    /\ appPc = "off"
    /\ polished = None
    /\ err = None
    /\ requestSent = FALSE
    /\ shown = "nothing"
    /\ prev = NoBlock

Init ==
    /\ \E arg \in Texts \cup {None} : text = OrEmpty(arg)
    /\ mode = "freeform-heading"
    /\ InitConv
    /\ InitApp

InLoop ==
    /\ mode = "freeform-heading"
    /\ pc = "loop"
    /\ i <= Len(lines)

AddHeading ==
    /\ InLoop
    /\ IsHeadingLine(lines[i])
    /\ doc' = Append(doc, Block("Heading", 2, HeadingText(lines[i]), "Heading 2"))
    /\ i' = i + 1
    /\ UNCHANGED <<text, lines, pc, out, txt, mode>>
    /\ UNCHANGED appVars

AddBullet ==
    /\ InLoop
    /\ ~IsHeadingLine(lines[i])
    /\ IsBulletLine(lines[i])
    /\ doc' = Append(doc, Block("BulletItem", 0, BulletText(lines[i]), "Normal"))
    /\ pc' = "style"
    /\ UNCHANGED <<text, lines, i, out, txt, mode>>
    /\ UNCHANGED appVars

SetStyleOk ==
    /\ pc = "style"
    /\ doc' = [doc EXCEPT ![Len(doc)].style = "List Bullet"]
    /\ pc' = "loop"
    /\ i' = i + 1
    /\ UNCHANGED <<text, lines, out, txt, mode>>
    /\ UNCHANGED appVars

StyleRaisesAbort ==
    /\ pc = "style"
    /\ pc' = "raised"
    /\ UNCHANGED <<text, lines, i, doc, out, txt, mode>>
    /\ UNCHANGED appVars

SetStyleFails ==
    /\ pc = "style"
    /\ pc' = "loop"
    /\ i' = i + 1
    /\ UNCHANGED <<text, lines, doc, out, txt, mode>>
    /\ UNCHANGED appVars

AddParagraphTrimmed ==
    /\ InLoop
    /\ ~IsHeadingLine(lines[i])
    /\ ~IsBulletLine(lines[i])
    /\ doc' = Append(doc, Block("Paragraph", 0, Strip(lines[i]), "Normal"))
    /\ i' = i + 1
    /\ UNCHANGED <<text, lines, pc, out, txt, mode>>
    /\ UNCHANGED appVars

AddParagraph ==
    /\ InLoop
    /\ ~IsHeadingLine(lines[i])
    /\ ~IsBulletLine(lines[i])
    /\ doc' = Append(doc, Block("Paragraph", 0, lines[i], "Normal"))
    /\ i' = i + 1
    /\ UNCHANGED <<text, lines, pc, out, txt, mode>>
    /\ UNCHANGED appVars

Save ==
    /\ mode = "freeform-heading"
    /\ pc = "loop"
    /\ i > Len(lines)
    /\ out' = Serialize(doc)
    /\ pc' = "done"
    /\ UNCHANGED <<text, lines, i, doc, txt, mode>>
    /\ UNCHANGED appVars

-----------------------------------------------------------------------------
(* read_any_file, .docx branch, applied to the bytes to_docx_bytes returned *)

ReadDocxUnfiltered ==
    /\ pc = "done"
    /\ txt' = JoinNewline(SelectAll(out))
    /\ pc' = "parsed"
    /\ UNCHANGED <<text, lines, i, doc, out, mode>>
    /\ UNCHANGED appVars

ReadDocx ==
    /\ pc = "done"
    /\ txt' = JoinNewline(SelectNonBlank(out))
    /\ pc' = "parsed"
    /\ UNCHANGED <<text, lines, i, doc, out, mode>>
    /\ UNCHANGED appVars

Convert ==
    \/ AddHeading
    \/ AddBullet
    \/ SetStyleOk
    \/ SetStyleFails
    \/ AddParagraph
    \/ Save

Next ==
    \/ Convert
    \/ ReadDocx

Spec == Init /\ [][Next]_vars

-----------------------------------------------------------------------------
(* The application: one script run per interaction *)

AppTexts == StringsUpTo(Chars, MaxAppLen)

NoKeyMessage == <<"No OpenAI API key found">>

\* str(e) of the exception the API call raised
ExceptionMessages == {<<>>, <<"list index out of range">>}

\* resp.choices[0].message.content
Contents == {None} \cup AppTexts

\* what st.secrets.get("OPENAI_API_KEY", None) does
Secrets == {"raises", "missing", "empty", "key"}

Emitted(k) ==
    [line |-> lines[k], kind |-> doc[k].kind, level |-> doc[k].level,
     text |-> doc[k].text]

\* Python truthiness of an optional string
Truthy(v) == v # None /\ v # <<>>

get_openai_key ==
    IF secret = "key" THEN <<"sk">>
    ELSE IF secret = "empty" THEN <<>>
    ELSE None

NotCalled ==
    /\ text = None
    /\ lines = <<>>
    /\ i = 1
    /\ doc = <<>>
    /\ pc = "notcalled"
    /\ out = None
    /\ txt = None

InitSession ==
    /\ mode = "freeform-heading"
    /\ secret \in Secrets
    /\ appPc = "idle"
    /\ polished = None
    /\ err = None
    /\ requestSent = FALSE
    /\ shown = "nothing"
    /\ prev = NoBlock
    /\ NotCalled

\* a run in which the form was not submitted
RunWithoutSubmit ==
    /\ appPc = "idle"
    /\ shown # "warning"
    /\ shown' = "warning"
    /\ UNCHANGED <<secret, appPc, polished, err, requestSent, prev, mode>>
    /\ UNCHANGED convVars

PolishNoKey ==
    /\ appPc = "idle"
    /\ ~Truthy(get_openai_key)
    /\ polished' = None
    /\ err' = NoKeyMessage
    /\ appPc' = "returned"
    /\ shown' = "info"
    /\ UNCHANGED <<secret, requestSent, prev, mode>>
    /\ UNCHANGED convVars

PolishReturns ==
    /\ appPc = "idle"
    /\ Truthy(get_openai_key)
    /\ requestSent' = TRUE
    /\ \E content \in Contents :
          /\ polished' = content
          /\ err' = None
    /\ appPc' = "returned"
    /\ shown' = "info"
    /\ UNCHANGED <<secret, prev, mode>>
    /\ UNCHANGED convVars

PolishRaises ==
    /\ appPc = "idle"
    /\ Truthy(get_openai_key)
    /\ requestSent' = TRUE
    /\ \E msg \in ExceptionMessages :
          /\ polished' = None
          /\ err' = msg
    /\ appPc' = "returned"
    /\ shown' = "info"
    /\ UNCHANGED <<secret, prev, mode>>
    /\ UNCHANGED convVars

\* `if polished:` -- the text area, then the call of to_docx_bytes(polished)
ShowDocument ==
    /\ appPc = "returned"
    /\ Truthy(polished)
    /\ shown' = "document"
    /\ text' = OrEmpty(polished)
    /\ lines' = SplitLines(OrEmpty(polished))
    /\ i' = 1
    /\ doc' = <<>>
    /\ pc' = "loop"
    /\ appPc' = "docx"
    /\ UNCHANGED <<out, txt, mode, secret, polished, err, requestSent, prev>>

\* `else: st.error(err)`
ShowError ==
    /\ appPc = "returned"
    /\ ~Truthy(polished)
    /\ shown' = "error"
    /\ appPc' = "end"
    /\ UNCHANGED <<secret, polished, err, requestSent, prev, mode>>
    /\ UNCHANGED convVars

\* st.download_button(data=docx_bytes)
Download ==
    /\ appPc = "docx"
    /\ pc = "done"
    /\ shown' = "document+download"
    /\ appPc' = "end"
    /\ UNCHANGED <<secret, polished, err, requestSent, prev, mode>>
    /\ UNCHANGED convVars

\* the next interaction starts the script afresh; nothing of the run is kept
\* (prev only remembers one block of an earlier call for comparison)
Rerun ==
    /\ appPc = "end"
    /\ appPc' = "idle"
    /\ polished' = None
    /\ err' = None
    /\ requestSent' = FALSE
    /\ shown' = "nothing"
    /\ prev' \in {prev} \cup {Emitted(k) : k \in 1..Len(doc)}
    /\ text' = None
    /\ lines' = <<>>
    /\ i' = 1
    /\ doc' = <<>>
    /\ pc' = "notcalled"
    /\ out' = None
    /\ txt' = None
    /\ UNCHANGED <<secret, mode>>

NextApp ==
    \/ RunWithoutSubmit
    \/ PolishNoKey
    \/ PolishReturns
    \/ PolishRaises
    \/ ShowDocument
    \/ ShowError
    \/ Convert
    \/ Download
    \/ Rerun

SpecApp == InitSession /\ [][NextApp]_vars

-----------------------------------------------------------------------------
(* The markdown-heading variant of the converter *)

MdChars == {HASH, SP, DASH, LETTER, NL}

\* "## Overview\n- first point\nplain text\n"
MdExample ==
    <<"#", "#", " ", "O", "v", "e", "r", "v", "i", "e", "w", "\n",
      "-", " ", "f", "i", "r", "s", "t", " ", "p", "o", "i", "n", "t", "\n",
      "p", "l", "a", "i", "n", " ", "t", "e", "x", "t", "\n">>

MdTexts == StringsUpTo(MdChars, MaxMdLen) \cup {MdExample}

DropPrefix(line, n) == SubSeq(line, n + 1, Len(line))

ClassifyMarkdownLoose(line) ==
    IF StartsWith(line, <<HASH, HASH>>)
    THEN Block("Heading", 2, LStripChars(line, {HASH, SP}), "Heading 2")
    ELSE IF StartsWith(line, <<DASH>>)
    THEN Block("BulletItem", 0, LStripChars(line, {DASH, SP}), "List Bullet")
    ELSE Block("Paragraph", 0, line, "Normal")

ClassifyMarkdown(line) ==
    IF StartsWith(line, <<HASH, HASH, SP>>)
    THEN Block("Heading", 2, DropPrefix(line, 3), "Heading 2")
    ELSE IF StartsWith(line, <<HASH, HASH, HASH, SP>>)
    THEN Block("Heading", 3, DropPrefix(line, 4), "Heading 3")
    ELSE IF StartsWith(line, <<DASH, SP>>)
    THEN Block("BulletItem", 0, DropPrefix(line, 2), "List Bullet")
    ELSE Block("Paragraph", 0, line, "Normal")

InitMd ==
    /\ text \in MdTexts
    /\ mode = "markdown-heading"
    /\ lines = SplitNewline(text)
    /\ i = 1
    /\ doc = <<>>
    /\ pc = "loop"
    /\ out = None
    /\ txt = None
    /\ InitApp

MdAddBlock ==
    /\ mode = "markdown-heading"
    /\ pc = "loop"
    /\ i <= Len(lines)
    /\ doc' = Append(doc, ClassifyMarkdown(lines[i]))
    /\ i' = i + 1
    /\ UNCHANGED <<text, lines, pc, out, txt, mode>>
    /\ UNCHANGED appVars

MdSave ==
    /\ mode = "markdown-heading"
    /\ pc = "loop"
    /\ i > Len(lines)
    /\ out' = Serialize(doc)
    /\ pc' = "done"
    /\ UNCHANGED <<text, lines, i, doc, txt, mode>>
    /\ UNCHANGED appVars

NextMd ==
    \/ MdAddBlock
    \/ MdSave

SpecMd == InitMd /\ [][NextMd]_vars

-----------------------------------------------------------------------------
(* Properties of to_docx_bytes, checked under Spec *)

Returned == pc \in {"done", "parsed"}

Count(s, c) == Cardinality({k \in 1..Len(s) : s[k] = c})

\* lines ended by "\n": one per newline, plus the unterminated rest if any
TerminatedLineCount(s) ==
    Count(s, NL) + (IF s # <<>> /\ s[Len(s)] # NL THEN 1 ELSE 0)

TrimmedRight(line) == RStripChars(line, Whitespace)

HeadingRule(line) ==
    /\ TrimmedRight(line) # <<>>
    /\ TrimmedRight(line)[Len(TrimmedRight(line))] = COLON
    /\ (line = <<>> \/ line[1] # SP)

BulletRule(line) ==
    LET t == Strip(line)
    IN  \/ (Len(t) >= 1 /\ t[1] = BULLET)
        \/ (Len(t) >= 2 /\ t[1] = DASH /\ t[2] = SP)

\* the style assignment of block k was attempted and did not take effect
StyleFailedAt(k) ==
    /\ k \in 1..Len(doc)
    /\ doc[k].kind = "BulletItem"
    /\ doc[k].style = "Normal"
    /\ (k < Len(doc) \/ pc # "style")

\* C1 as stated: one block per segment of the text split on "\n", empty
\* trailing segments kept (so "" gives one block and "a\n" gives two).
C1_BlockPerNewlineSegment ==
    Returned => Len(doc) = Len(SplitNewline(text))

\* C1 amended: for a text whose only line-break character is "\n", the
\* number of blocks is the number of "\n"-terminated lines: one per newline
\* plus one for an unterminated last line; "" gives no block and a final
\* newline adds no block, while every blank line in between gives an empty
\* Paragraph.
C1_BlockPerTerminatedLine ==
    (Returned /\ Count(text, CR) = 0) =>
        /\ Len(doc) = TerminatedLineCount(text)
        /\ (text = <<>> => doc = <<>>)
        /\ \A k \in 1..Len(doc) :
              lines[k] = <<>> => doc[k] = Block("Paragraph", 0, <<>>, "Normal")

C1_Witness ==
    /\ Returned
    /\ Count(text, CR) = 0
    /\ Len(text) >= 3
    /\ text[Len(text)] = NL
    /\ text[Len(text) - 1] = NL
    /\ Len(doc) = 2
    /\ doc[2].text = <<>>

\* C2: a line is a level-2 Heading exactly when, trailing whitespace trimmed,
\* it ends with ":" and the untrimmed line does not start with a space; the
\* heading text is the trimmed line, colon kept.
C2_HeadingRule ==
    \A k \in 1..Len(doc) :
        /\ (doc[k].kind = "Heading") <=> HeadingRule(lines[k])
        /\ doc[k].kind = "Heading" =>
              /\ doc[k].level = 2
              /\ doc[k].text = Strip(lines[k])
              /\ doc[k].text[Len(doc[k].text)] = COLON

C2_Witness ==
    /\ Len(doc) = 2
    /\ doc[1].kind = "Heading"
    /\ doc[1].text = <<COLON>>
    /\ lines[2] = <<SP, COLON>>
    /\ doc[2].kind = "Paragraph"

\* C3 as stated: every line whose trimmed content starts with the bullet
\* character or with "- " is a BulletItem.
C3_BulletAlways ==
    \A k \in 1..Len(doc) :
        BulletRule(lines[k]) => doc[k].kind = "BulletItem"

\* C3 amended: every such line that is not a heading by the rule of C2 is a
\* BulletItem (the heading test comes first).
C3_BulletUnlessHeading ==
    \A k \in 1..Len(doc) :
        (BulletRule(lines[k]) /\ ~HeadingRule(lines[k])) =>
            doc[k].kind = "BulletItem"

C3_Witness ==
    /\ Len(doc) = 2
    /\ lines[1] = <<BULLET, COLON>>
    /\ doc[1].kind = "Heading"
    /\ lines[2] = <<BULLET>>
    /\ doc[2].kind = "BulletItem"

\* C4: a BulletItem's text is the trimmed line without its longest prefix of
\* bullet characters, dashes and spaces, so it never starts with one of them.
C4_BulletTextStripped ==
    \A k \in 1..Len(doc) :
        doc[k].kind = "BulletItem" =>
            LET t == Strip(lines[k])
                n == Len(t) - Len(doc[k].text)
            IN  /\ n >= 1
                /\ doc[k].text = SubSeq(t, n + 1, Len(t))
                /\ \A j \in 1..n : t[j] \in {BULLET, DASH, SP}
                /\ (doc[k].text = <<>> \/ doc[k].text[1] \notin {BULLET, DASH, SP})

C4_Witness ==
    \E k \in 1..Len(doc) :
        /\ doc[k].kind = "BulletItem"
        /\ Len(Strip(lines[k])) - Len(doc[k].text) >= 3
        /\ doc[k].text # <<>>

\* C5: a line that is neither a heading nor a bullet item is a Paragraph
\* holding the line unchanged, whitespace included, "" for a blank line.
C5_ParagraphVerbatim ==
    \A k \in 1..Len(doc) :
        (~HeadingRule(lines[k]) /\ ~BulletRule(lines[k])) =>
            /\ doc[k].kind = "Paragraph"
            /\ doc[k].text = lines[k]
            /\ doc[k].style = "Normal"

C5_Witness ==
    /\ Len(doc) = 2
    /\ doc[1].kind = "Paragraph"
    /\ Strip(doc[1].text) # <<>>
    /\ Strip(doc[1].text) # doc[1].text
    /\ doc[2] = Block("Paragraph", 0, <<>>, "Normal")

\* C6: a failed bullet-style assignment never aborts the call: the item's
\* paragraph keeps its stripped text, the lines after it are rendered in
\* order, and the bytes returned hold every paragraph.
C6_StyleFailureAbsorbed ==
    /\ pc # "raised"
    /\ \A k \in 1..Len(doc) :
          StyleFailedAt(k) =>
              /\ doc[k].text = LStripChars(Strip(lines[k]), {BULLET, DASH, SP})
              /\ Returned =>
                    /\ Len(out) = Len(lines)
                    /\ \A j \in k..Len(out) :
                          /\ out[j].runs = RunElements(doc[j].text)
                          /\ doc[j].text \in
                                {lines[j], Strip(lines[j]),
                                 LStripChars(Strip(lines[j]), {BULLET, DASH, SP})}

C6_Witness ==
    /\ pc = "done"
    /\ Len(out) = 2
    /\ StyleFailedAt(1)
    /\ doc[1].text # <<>>
    /\ out[2].runs # <<>>

NonBlankBlocks(d) == {k \in 1..Len(d) : Strip(d[k].text) # <<>>}

\* C8: re-parsing the rendered document recovers one text line per rendered
\* block with non-blank text, in the order of the blocks.
C8_WeakRoundTrip ==
    pc = "parsed" =>
        LET rec == IF txt = <<>> THEN <<>> ELSE SplitNewline(txt)
        IN  /\ Len(rec) = Cardinality(NonBlankBlocks(doc))
            /\ \A a, b \in NonBlankBlocks(doc) :
                  a < b =>
                      \E x, y \in 1..Len(rec) :
                          /\ x < y
                          /\ rec[x] = doc[a].text
                          /\ rec[y] = doc[b].text
            /\ \A a \in NonBlankBlocks(doc) :
                  \E x \in 1..Len(rec) : rec[x] = doc[a].text

C8_Witness ==
    /\ pc = "parsed"
    /\ Len(doc) = 3
    /\ doc[1].kind = "Heading"
    /\ doc[2].text = <<>>
    /\ doc[3].kind = "Paragraph"
    /\ Strip(doc[3].text) # <<>>

-----------------------------------------------------------------------------
(* Properties of the application, checked under SpecApp *)

SameBlock(a, b) ==
    /\ a.kind = b.kind
    /\ a.level = b.level
    /\ a.text = b.text

\* C7: equal lines give equal blocks (kind, level, text), whatever the lines
\* around them and whatever an earlier call of to_docx_bytes rendered.
C7_LineDeterminesBlock ==
    /\ \A a, b \in 1..Len(doc) :
          lines[a] = lines[b] => SameBlock(doc[a], doc[b])
    /\ \A a \in 1..Len(doc) :
          (prev.kind # "none" /\ lines[a] = prev.line) =>
              SameBlock(doc[a], prev)

C7_Witness ==
    /\ prev.kind = "Heading"
    /\ Len(doc) = 2
    /\ lines[1] # prev.line
    /\ lines[2] = prev.line

\* C10: polish_with_openai returns a pair with exactly one non-empty
\* component; a run that was submitted ends with the document and its Word
\* download built from that text, or with a non-empty error message; without
\* a credential no request is sent and to_docx_bytes is not called.
C10_ExactlyOneOfTextAndError ==
    /\ appPc = "returned" => (Truthy(polished) /\ ~Truthy(err)) \/ (~Truthy(polished) /\ Truthy(err))
    /\ appPc = "end" =>
          \/ (shown = "document+download" /\ Truthy(polished) /\ text = polished)
          \/ (shown = "error" /\ Truthy(err))
    /\ ~Truthy(get_openai_key) => (~requestSent /\ pc = "notcalled")

-----------------------------------------------------------------------------
(* Properties of the markdown-heading variant, checked under SpecMd *)

Chr(line, k) == IF k <= Len(line) THEN line[k] ELSE ""

Rest(line, n) == [k \in 1..(Len(line) - n) |-> line[k + n]]

\* C9: in markdown-heading mode "## " gives a level-2 Heading, "### " a
\* level-3 Heading, "- " a BulletItem, each with only that prefix removed,
\* and any other line a Paragraph; the example text gives
\* [Heading(2,"Overview"), BulletItem("first point"), Paragraph("plain text"),
\* Paragraph("")].
C9_MarkdownMode ==
    /\ \A k \in 1..Len(doc) :
          LET l == lines[k]
              h2 == Chr(l, 1) = HASH /\ Chr(l, 2) = HASH /\ Chr(l, 3) = SP
              h3 == /\ Chr(l, 1) = HASH /\ Chr(l, 2) = HASH
                    /\ Chr(l, 3) = HASH /\ Chr(l, 4) = SP
              bl == Chr(l, 1) = DASH /\ Chr(l, 2) = SP
          IN  /\ h2 => (doc[k].kind = "Heading" /\ doc[k].level = 2
                          /\ doc[k].text = Rest(l, 3))
              /\ h3 => (doc[k].kind = "Heading" /\ doc[k].level = 3
                          /\ doc[k].text = Rest(l, 4))
              /\ bl => (doc[k].kind = "BulletItem" /\ doc[k].text = Rest(l, 2))
              /\ (~h2 /\ ~h3 /\ ~bl) =>
                    (doc[k].kind = "Paragraph" /\ doc[k].text = l)
    /\ (pc = "done" /\ text = MdExample) =>
          /\ Len(doc) = 4
          /\ doc[1].kind = "Heading" /\ doc[1].level = 2
          /\ doc[1].text = <<"O", "v", "e", "r", "v", "i", "e", "w">>
          /\ doc[2].kind = "BulletItem"
          /\ doc[2].text = <<"f", "i", "r", "s", "t", " ", "p", "o", "i", "n", "t">>
          /\ doc[3].kind = "Paragraph"
          /\ doc[3].text = <<"p", "l", "a", "i", "n", " ", "t", "e", "x", "t">>
          /\ doc[4].kind = "Paragraph"
          /\ doc[4].text = <<>>

C9_Witness ==
    /\ pc = "done"
    /\ text = MdExample
    /\ Len(doc) = 4

====
